---- MODULE Spec2Model ----
(***************************************************************************)
(* A model of the Africa Gold Intelligence pipeline: the orchestrator's    *)
(* main() as a state machine over its stages (orchestrator.py), and the    *)
(* monetization agent's cooldown-gated strategy selector                   *)
(* (agents/monetization_agent.py).                                         *)
(*                                                                         *)
(* Units.  Gold prices are whole dollars.  Day changes are tenths of a     *)
(* percent (2.1% is 21).  The clock counts ticks, TicksPerDay to the day,  *)
(* so that timedelta.days (a floor) is a real truncation.                  *)
(***************************************************************************)
EXTENDS Integers, Sequences, FiniteSets, TLC

\* ------------------------------------------------------------------ bounds
\* Runs already recorded in run_log.jsonl when the orchestrator process starts.
MaxPriorRuns == 2
\* Invocations of monetization_agent.run in one behaviour of SpecMon.
MaxMonRuns == 3
\* Lines of a log file handed to the historical reads of SpecHist.
MaxLines == 5

\* Records appended in one behaviour of SpecRoundTrip.
MaxAppends == 3

\* Runs of the partnership agent in one behaviour of SpecOutreach.
MaxOutreachRuns == 3

\* Clock resolution.
TicksPerDay == 2

\* ------------------------------------------------------- program constants
PRICE_MIN == 800
PRICE_MAX == 15000
\* 10 percent, in tenths of a percent
SWING_LIMIT == 100
HARD_UPSELL_COOLDOWN_DAYS == 3
PROMO_COOLDOWN_DAYS == 14
\* _days_since_last_upsell's "never" value
NEVER_DAYS == 9999

\* partnership_agent
COOLDOWN_DAYS == 30
MAX_DRAFTS == 2

REQUIRED_FX == {"ZAR", "GHS", "NGN", "KES"}

\* ------------------------------------------------------------------ inputs
\* What fetch_yfinance(GOLD_TICKER) can return: {} (modelled "empty") or a
\* record with a price and a day change.
Prices == {799, 800, 15000, 15001}
DayPcts == {100, 0 - 101}
Golds == {[price |-> p, day_chg_pct |-> d] : p \in Prices, d \in DayPcts}
\* The feeds behind fetch_fx_rates and fetch_news: the currencies whose rate
\* is falsy in fx_rates, and the number of headlines.
Feeds == {[fx_missing |-> {}, news |-> 6],
          [fx_missing |-> {"GHS", "KES"}, news |-> 6],
          [fx_missing |-> {}, news |-> 0]}
Weekdays == {0, 6}

Booleans == {TRUE, FALSE}

\* ---------------------------------------------------------- quality gate
Abs(x) == IF x < 0 THEN 0 - x ELSE x

Finding(sev, what) == [sev |-> sev, what |-> what]

\* gold.get("price", 0): a snapshot without a price counts as 0.
PriceOf(gold) == IF "price" \in DOMAIN gold THEN gold.price ELSE 0
\* gold.get("day_chg_pct") or 0
DayPctOf(gold) == IF "day_chg_pct" \in DOMAIN gold THEN gold.day_chg_pct ELSE 0

\* A band with no ceiling.
PriceInBandNoCeiling(price) == PRICE_MIN <= price

PriceInBand(price) == PRICE_MIN <= price /\ price <= PRICE_MAX

\* A swing check that halts the pipeline.
SwingFindingCritical(pct) ==
    IF Abs(pct) > SWING_LIMIT
        THEN <<Finding("CRITICAL", "large_daily_swing")>> ELSE <<>>

\* pct = abs(...); if pct > 10: a WARNING
SwingFinding(pct) ==
    IF Abs(pct) > SWING_LIMIT
        THEN <<Finding("WARNING", "large_daily_swing")>> ELSE <<>>

check_data_quality(d) ==
    (IF ~PriceInBand(PriceOf(d.gold))
        THEN <<Finding("CRITICAL", "price_out_of_range")>> ELSE <<>>)
    \o SwingFinding(DayPctOf(d.gold))
    \o (IF d.fx_missing \cap REQUIRED_FX # {}
        THEN <<Finding("WARNING", "fx_missing")>> ELSE <<>>)
    \o (IF d.news = 0
        THEN <<Finding("WARNING", "no_news")>> ELSE <<>>)

\* criticals = [w for w in warnings if w.startswith("CRITICAL")]
Criticals(ws) == SelectSeq(ws, LAMBDA w : w.sev = "CRITICAL")

\* ------------------------------------------------------------------- state
VARIABLES
    pc,            \* position of the orchestrator process in main()
    now,           \* the clock (datetime.datetime.now()), in ticks
    cfg,           \* module-level configuration read at import (env, argv)
    weekday,       \* today.weekday()
    post_type,     \* main's post_type
    stage,         \* main's stage
    data,          \* the market snapshot built by Agent 1
    warnings,      \* check_data_quality's findings
    ctx,           \* the enrichment payloads: africa_data ... analytics_data
    free_html,     \* the free content, as the set of parts it holds
    beehiiv_ok,    \* main's beehiiv_ok
    post_id,       \* main's post_id
    post_url,      \* main's post_url
    previews,      \* what the dry run wrote to /tmp/agi_preview_*.html
    exit_code,     \* the process's exit status ("none" while it runs)
    run_log,       \* logs/run_log.jsonl, one record per line
    log_at_start,  \* run_log as the running process found it
    trace,         \* what this run has done so far, in order
    mon_log,       \* logs/monetization_log.jsonl
    mon_decision,  \* the last monetization_agent.run: what it read and chose
    mon_runs,      \* invocations of monetization_agent.run so far
    hist,          \* the last historical read of a log: what was asked, what came back
    partners       \* data/partners.json: whether it exists, and its contact list

runVars == <<cfg, weekday, post_type, stage, data, warnings, ctx, free_html,
             beehiiv_ok, post_id, post_url, previews>>
monVars == <<mon_log, mon_decision, mon_runs, hist, partners>>
vars == <<pc, now, runVars, exit_code, run_log, log_at_start, trace, monVars>>

STAGE_KEYS == {"africa_data", "contract_data", "seo_data", "social_data",
               "partnership_data", "monetization_data", "analytics_data"}

NoData == [gold |-> <<>>, fx_missing |-> {}, news |-> 0]
NoCfg == [DRY_RUN |-> FALSE, AUTO_PUBLISH |-> FALSE, PRINT_LOG |-> FALSE,
          NOTIFY_PASSWORD |-> FALSE, BEEHIIV_API_KEY |-> FALSE,
          FORCE_POST_TYPE |-> "None"]

\* Runs started without --post-type; SpecPostType covers the flag.
Configs == [DRY_RUN : Booleans, AUTO_PUBLISH : Booleans, PRINT_LOG : Booleans,
            NOTIFY_PASSWORD : Booleans, BEEHIIV_API_KEY : Booleans,
            FORCE_POST_TYPE : {"None"}]

\* A publish type that is beehiiv_create_post's default whatever the flags.
PUBLISH_TYPE_ALWAYS_INSTANT == "instant"

\* PUBLISH_TYPE = "instant" if AUTO_PUBLISH else "draft"
PUBLISH_TYPE == IF cfg.AUTO_PUBLISH THEN "instant" ELSE "draft"

\* 7-day editorial calendar
DAY_TYPES(d) ==
    CASE d = 0 -> "trader_intelligence"
      [] d = 1 -> "africa_regional"
      [] d = 2 -> "aggregator"
      [] d = 3 -> "karat_pricing"
      [] d = 4 -> "macro_outlook"
      [] d = 5 -> "educational"
      [] d = 6 -> "week_review"
      [] OTHER -> "aggregator"

\* The keys of POST_TYPE_LABELS: the editorial types the generator knows.
POST_TYPE_LABELS == {"trader_intelligence", "africa_regional", "aggregator",
                     "karat_pricing", "macro_outlook", "educational",
                     "week_review"}

\* A choice that takes whatever name follows the flag.
post_type_unchecked(force, d) == IF force # "None" THEN force ELSE DAY_TYPES(d)

\* main, lines 445-460: the forced type if it is a key of POST_TYPE_LABELS,
\* otherwise the type scheduled for the weekday.
post_type_for(force, d) ==
    IF force # "None" /\ force \in POST_TYPE_LABELS THEN force ELSE DAY_TYPES(d)

\* The run log as earlier runs left it: one FAILED run, then SUCCESS runs,
\* a day apart.
PriorRecord(i) ==
    IF i = 1
        THEN [ts |-> 0, status |-> "FAILED", stage |-> "market_intelligence",
              error |-> "fetch"]
        ELSE [ts |-> (i - 1) * TicksPerDay, status |-> "SUCCESS",
              post_type |-> "aggregator", post_id |-> "browser-post", post_url |-> "",
              gold_price |-> 2950, day_pct |-> 21, headlines |-> 6, warnings |-> <<>>,
              beehiiv_used |-> TRUE, publish_type |-> "draft",
              upsell_strategy |-> "soft_upsell"]
PriorLog(n) == [i \in 1..n |-> PriorRecord(i)]
InitialLogs == {PriorLog(0), PriorLog(MaxPriorRuns)}

\* The variables of the monetization agent's own history, before any run.
MonIdle ==
    /\ mon_log = <<>>
    /\ mon_decision = [strategy |-> "unset"]
    /\ mon_runs = 0
    /\ hist = [op |-> "none"]
    /\ partners = [exists |-> FALSE, list |-> <<>>]

\* A new orchestrator process: the module-level code has read env and argv
\* (lines 77-94) and main() starts with every local unset.
Init ==
    /\ pc = "main"
    /\ cfg \in Configs
    /\ weekday \in Weekdays
    /\ run_log \in InitialLogs
    /\ log_at_start = run_log
    /\ now = Len(run_log) * TicksPerDay
    /\ post_type = "unset"
    /\ stage = "unset"
    /\ data = NoData
    /\ warnings = <<>>
    /\ ctx = [k \in STAGE_KEYS |-> "unset"]
    /\ free_html = {}
    /\ beehiiv_ok = FALSE
    /\ post_id = "None"
    /\ post_url = ""
    /\ previews = {}
    /\ exit_code = "none"
    /\ trace = <<>>
    /\ MonIdle

\* A log_run that drops the record, and one that opens the file with "w".
log_run_dropped(status, details) == run_log
log_run_truncating(status, details) == <<[ts |-> now, status |-> status] @@ details>>

\* ------------------------------------------------------------ run logging
\* record = {"ts": now, "status": status, **details}; appended as one line.
log_run(status, details) ==
    Append(run_log, [ts |-> now, status |-> status] @@ details)

\* ---------------------------------------------------------- notifications
\* A sender that logs in whether or not a password is set.
send_email_unguarded(smtp_ok) == smtp_ok

\* _send_email: False without NOTIFY_PASSWORD, False when SMTP raises.
send_email(smtp_ok) == cfg.NOTIFY_PASSWORD /\ smtp_ok

Ev(ev, name, ok) == [ev |-> ev, name |-> name, ok |-> ok]

\* A failure notice that names no stage.
notify_failure_unnamed(stg, error, smtp_ok) ==
    Ev("notify", "failure", send_email(smtp_ok)) @@ [stage |-> "unknown", error |-> error]

\* notify_failure(stage, error): one call of _send_email, the stage in the
\* subject and the error in the body.
notify_failure(stg, error, smtp_ok) ==
    Ev("notify", "failure", send_email(smtp_ok)) @@ [stage |-> stg, error |-> error]

\* The error a fatal handler hands to notify_failure: the exception's
\* traceback, or the CRITICAL findings joined.
ErrorOf(details) ==
    IF "error" \in DOMAIN details THEN details.error ELSE Criticals(details.warnings)

\* A fatal handler that exits without notify_failure.
AbortWithoutNotice(status, stg, details) ==
    /\ run_log' = Append(run_log, [ts |-> now, status |-> status, stage |-> stg] @@ details)
    /\ trace' = Append(trace, [ev |-> "log_run", name |-> status, ok |-> TRUE])
    /\ pc' = "exited"
    /\ exit_code' = 1

\* A fatal handler of main: log_run, then notify_failure, then sys.exit(1).
Abort(status, stg, details) ==
    \E smtp_ok \in Booleans :
        /\ run_log' = log_run(status, [stage |-> stg] @@ details)
        /\ trace' = trace \o <<Ev("log_run", status, TRUE),
                               notify_failure(stg, ErrorOf(details), smtp_ok)>>
        /\ pc' = "exited"
        /\ exit_code' = 1

\* ------------------------------------------------------------------ main
\* if PRINT_LOG: print_recent_logs(10); return
PrintLog ==
    /\ pc = "main"
    /\ cfg.PRINT_LOG
    /\ pc' = "exited"
    /\ exit_code' = 0
    /\ UNCHANGED <<now, runVars, run_log, log_at_start, trace, monVars>>

\* import beehiiv_daily_post as market_agent, then the post type of the day.
ImportAgents ==
    /\ pc = "main"
    /\ ~cfg.PRINT_LOG
    /\ stage' = "import"
    /\ \/ /\ post_type' = post_type_for(cfg.FORCE_POST_TYPE, weekday)
          /\ pc' = "market_intelligence"
          /\ UNCHANGED <<run_log, trace, exit_code>>
       \/ /\ Abort("FAILED", "import", [error |-> "ImportError"])
          /\ UNCHANGED post_type
    /\ UNCHANGED <<now, cfg, weekday, data, warnings, ctx, free_html,
                   beehiiv_ok, post_id, post_url, previews, log_at_start, monVars>>

\* Agent 1: the fetches of lines 467-509, in one try block.
MarketIntelligence ==
    /\ pc = "market_intelligence"
    /\ stage' = "market_intelligence"
    /\ \/ \E g \in Golds, f \in Feeds :
            /\ data' = [gold |-> g, fx_missing |-> f.fx_missing, news |-> f.news]
            /\ pc' = "quality"
            /\ UNCHANGED <<run_log, trace, exit_code>>
       \/ \* gold came back empty, or any fetch raised
          /\ Abort("FAILED", "market_intelligence", [error |-> "fetch"])
          /\ UNCHANGED data
    /\ UNCHANGED <<now, cfg, weekday, post_type, warnings, ctx, free_html,
                   beehiiv_ok, post_id, post_url, previews, log_at_start, monVars>>

\* Anomaly detection: a CRITICAL finding halts the run.
DataQualityCheck ==
    /\ pc = "quality"
    /\ warnings' = check_data_quality(data)
    /\ IF Criticals(warnings') # <<>>
          THEN Abort("HALTED", "anomaly_detection",
                     [gold_price |-> data.gold.price, warnings |-> warnings'])
          ELSE /\ pc' = "africa_intelligence"
               /\ UNCHANGED <<run_log, trace, exit_code>>
    /\ UNCHANGED <<now, cfg, weekday, post_type, stage, data, ctx, free_html,
                   beehiiv_ok, post_id, post_url, previews, log_at_start, monVars>>

\* An enrichment stage in its own try/except: the agent returns a payload,
\* or raises and the except arm leaves the default.
StageEvent(name, ok) == Ev("stage", name, ok)

\* An except arm that binds nothing.
StagePayloadUnbound(ok) == IF ok THEN "payload" ELSE "unset"

\* What a stage leaves under its key: the agent's payload, or the default of
\* its except arm (None, or an empty dict of the payload's shape).
StagePayload(ok) == IF ok THEN "payload" ELSE "default"

\* Agent 1.5
AfricaIntelligence ==
    /\ pc = "africa_intelligence"
    /\ stage' = "africa_intelligence"
    /\ \E ok \in Booleans :
        /\ ctx' = [ctx EXCEPT !.africa_data = StagePayload(ok)]
        /\ trace' = Append(trace, StageEvent("africa_intelligence", ok))
    /\ pc' = "contract_transparency"
    /\ UNCHANGED <<now, cfg, weekday, post_type, data, warnings, free_html,
                   beehiiv_ok, post_id, post_url, previews, exit_code, run_log,
                   log_at_start, monVars>>

\* Agent 1.6
ContractTransparency ==
    /\ pc = "contract_transparency"
    /\ stage' = "contract_transparency"
    /\ \E ok \in Booleans :
        /\ ctx' = [ctx EXCEPT !.contract_data = StagePayload(ok)]
        /\ trace' = Append(trace, StageEvent("contract_transparency", ok))
    /\ pc' = "content_synthesis"
    /\ UNCHANGED <<now, cfg, weekday, post_type, data, warnings, free_html,
                   beehiiv_ok, post_id, post_url, previews, exit_code, run_log,
                   log_at_start, monVars>>

\* build_free_content(data, post_type, today, africa_data, contract_data):
\* the parts of the free content, given the payloads it is handed.
build_free_content(c) ==
    {"market"}
    \cup (IF c.africa_data = "payload" THEN {"africa"} ELSE {})
    \cup (IF c.contract_data = "payload" THEN {"contracts"} ELSE {})

\* Agent 2
ContentSynthesis ==
    /\ pc = "content_synthesis"
    /\ stage' = "content_synthesis"
    /\ \/ /\ free_html' = build_free_content(ctx)
          /\ trace' = Append(trace, StageEvent("content_synthesis", TRUE))
          /\ pc' = "seo"
          /\ UNCHANGED <<run_log, exit_code>>
       \/ /\ Abort("FAILED", "content_synthesis", [error |-> "synthesis"])
          /\ UNCHANGED free_html
    /\ UNCHANGED <<now, cfg, weekday, post_type, data, warnings, ctx,
                   beehiiv_ok, post_id, post_url, previews, log_at_start, monVars>>

\* A run that distributes whatever DRY_RUN says.
AfterSeoAlwaysDistributes == "distribution"

\* if DRY_RUN: (line 667)
AfterSeo == IF cfg.DRY_RUN THEN "dry_run" ELSE "distribution"

\* Agent 4: on success the JSON-LD block is injected into the free content.
SeoDiscoverability ==
    /\ pc = "seo"
    /\ stage' = "seo"
    /\ \E ok \in Booleans :
        /\ ctx' = [ctx EXCEPT !.seo_data = StagePayload(ok)]
        /\ free_html' = IF ok THEN free_html \cup {"json_ld"} ELSE free_html
        /\ trace' = Append(trace, StageEvent("seo", ok))
    /\ pc' = AfterSeo
    /\ UNCHANGED <<now, cfg, weekday, post_type, data, warnings,
                   beehiiv_ok, post_id, post_url, previews, exit_code, run_log,
                   log_at_start, monVars>>

\* if DRY_RUN: write the previews, generate the LinkedIn preview (non-fatal),
\* log DRY_RUN and return.
DryRun ==
    /\ pc = "dry_run"
    /\ previews' = {"free", "premium"}
    /\ run_log' = log_run("DRY_RUN",
                          [post_type |-> post_type, gold_price |-> data.gold.price,
                           day_pct |-> data.gold.day_chg_pct, warnings |-> warnings])
    /\ trace' = Append(trace, Ev("log_run", "DRY_RUN", TRUE))
    /\ pc' = "exited"
    /\ exit_code' = 0
    /\ UNCHANGED <<now, cfg, weekday, post_type, stage, data, warnings, ctx,
                   free_html, beehiiv_ok, post_id, post_url, log_at_start, monVars>>

\* ------------------------------------------------------------ distribution
STRATEGIES == {"none", "value_reminder", "soft_upsell", "hard_upsell", "promo"}

\* What beehiiv_create_post can do: return the created post, or raise
\* (HTTP 403 / SEND_API_DISABLED, or any other error).
ApiOutcomes == {"created", "plan_restricted", "error"}
\* What beehiiv_browser.publish_post can do: return a result with or without
\* the post URL, or raise RuntimeError (credentials, Playwright, session
\* expired, timeout) or another exception.
BrowserOutcomes == {"published", "published_no_url", "no_credentials",
                    "not_installed", "failed"}

ChannelCall(name, ok) ==
    Ev("channel", name, ok) @@ [publish_type |-> PUBLISH_TYPE, content |-> free_html]

\* Method 1: Beehiiv V2 API
DistributionApi ==
    /\ pc = "distribution"
    /\ stage' = "distribution"
    /\ IF ~cfg.BEEHIIV_API_KEY
          THEN UNCHANGED <<post_id, post_url, beehiiv_ok, trace>>
          ELSE \E o \in ApiOutcomes :
                /\ trace' = Append(trace, ChannelCall("api", o = "created"))
                /\ IF o = "created"
                      THEN /\ post_id' = "api-post"
                           /\ post_url' = "web_url"
                           /\ beehiiv_ok' = TRUE
                      ELSE UNCHANGED <<post_id, post_url, beehiiv_ok>>
    /\ pc' = "distribution_browser"
    /\ UNCHANGED <<now, cfg, weekday, post_type, data, warnings, ctx,
                   free_html, previews, exit_code, run_log, log_at_start, monVars>>

\* A browser channel that is tried whatever the API did.
NeedsBrowserAlways == TRUE

\* if not beehiiv_ok: (line 740)
NeedsBrowser == ~beehiiv_ok

\* Method 2: browser automation, only if the API did not create the post
DistributionBrowser ==
    /\ pc = "distribution_browser"
    /\ \/ /\ ~NeedsBrowser
          /\ UNCHANGED <<post_id, post_url, beehiiv_ok, trace>>
       \/ /\ NeedsBrowser
          /\ \E o \in BrowserOutcomes :
                LET ok == o \in {"published", "published_no_url"} IN
                /\ trace' = Append(trace, ChannelCall("browser", ok)
                                            @@ [outcome |-> o])
                /\ IF ok
                      THEN /\ post_id' = "browser-post"
                           /\ post_url' = IF o = "published" THEN "post_url" ELSE ""
                           /\ beehiiv_ok' = TRUE
                      ELSE UNCHANGED <<post_id, post_url, beehiiv_ok>>
       \/ \* import beehiiv_browser raises ImportError: publish_post is not called
          /\ NeedsBrowser
          /\ UNCHANGED <<post_id, post_url, beehiiv_ok, trace>>
    /\ pc' = "linkedin"
    /\ UNCHANGED <<now, cfg, weekday, post_type, stage, data, warnings, ctx,
                   free_html, previews, exit_code, run_log, log_at_start, monVars>>

\* LinkedIn post generator: non-fatal, its result is not used afterwards.
LinkedInPost ==
    /\ pc = "linkedin"
    /\ pc' = "social"
    /\ UNCHANGED <<now, runVars, exit_code, run_log, log_at_start, trace, monVars>>

\* social_agent: SITE_URL and NEWSLETTER_URL are the same homepage.
NEWSLETTER_URL == "homepage"
\* The slug the SEO stage left: seo_agent's, or None from its except arms.
SlugOf(seo) == IF seo = "payload" THEN "slug" ELSE "None"
\* The link of build_twitter_post, build_linkedin_post and
\* build_whatsapp_message: real post URL > slug-based URL > homepage.
build_link(slug, resolved_url) ==
    IF resolved_url # "None" THEN resolved_url
    ELSE IF slug # "None" THEN "site/p/slug"
    ELSE NEWSLETTER_URL

\* A run that passes the slug on whether or not there is a live URL.
social_run_with_slug(seo, url) ==
    LET link == build_link(SlugOf(seo), IF url # "" THEN url ELSE "None")
    IN  [twitter |-> link, linkedin |-> link, whatsapp |-> link]

\* social_agent.run: the links of the three posts it builds.
social_run(seo, url) ==
    LET slug == SlugOf(seo)
        resolved_url == IF url # "" THEN url ELSE "None"
        _slug == IF resolved_url # "None" THEN slug ELSE "None"
    IN  [twitter  |-> build_link(_slug, resolved_url),
         linkedin |-> build_link(_slug, resolved_url),
         whatsapp |-> build_link(_slug, resolved_url)]

\* Agent 5
SocialAmplification ==
    /\ pc = "social"
    /\ stage' = "social"
    /\ \E ok \in Booleans :
        /\ ctx' = [ctx EXCEPT !.social_data = StagePayload(ok)]
        /\ trace' = Append(trace,
                IF ok THEN StageEvent("social", ok)
                             @@ [links |-> social_run(ctx.seo_data, post_url)]
                      ELSE StageEvent("social", ok))
    /\ pc' = "partnership"
    /\ UNCHANGED <<now, cfg, weekday, post_type, data, warnings, free_html,
                   beehiiv_ok, post_id, post_url, previews, exit_code, run_log,
                   log_at_start, monVars>>

\* Agent 6
PartnershipOutreach ==
    /\ pc = "partnership"
    /\ \E ok \in Booleans :
        /\ ctx' = [ctx EXCEPT !.partnership_data = StagePayload(ok)]
        /\ trace' = Append(trace, StageEvent("partnership", ok))
    /\ pc' = "monetization"
    /\ UNCHANGED <<now, cfg, weekday, post_type, stage, data, warnings,
                   free_html, beehiiv_ok, post_id, post_url, previews, exit_code,
                   run_log, log_at_start, monVars>>

\* The strategies monetization_agent.run hands to the orchestrator.
PipelineStrategies == {"none", "hard_upsell"}

\* Agent 7: the agent returns a strategy with its CTA (the banner is empty
\* exactly for "none") and the banner is injected into the free content; or
\* it raises and the default {"score": 0, "strategy": "none", ...} is left.
MonetizationOptimizer ==
    /\ pc = "monetization"
    /\ \/ \E s \in PipelineStrategies :
            /\ ctx' = [ctx EXCEPT !.monetization_data = s]
            /\ free_html' = IF s # "none" THEN free_html \cup {"banner"} ELSE free_html
            /\ trace' = Append(trace, StageEvent("monetization", TRUE))
       \/ /\ ctx' = [ctx EXCEPT !.monetization_data = StagePayload(FALSE)]
          /\ trace' = Append(trace, StageEvent("monetization", FALSE))
          /\ UNCHANGED free_html
    /\ pc' = "analytics"
    /\ UNCHANGED <<now, cfg, weekday, post_type, stage, data, warnings,
                   beehiiv_ok, post_id, post_url, previews, exit_code,
                   run_log, log_at_start, monVars>>

\* Agent 8: analytics_agent.run; on Sundays it also emails the weekly report
\* (send_weekly_report: False without NOTIFY_PASSWORD or when SMTP raises).
AnalyticsReporting ==
    /\ pc = "analytics"
    /\ \/ /\ ctx' = [ctx EXCEPT !.analytics_data = StagePayload(TRUE)]
          /\ IF weekday = 6
                THEN \E smtp_ok \in Booleans :
                        trace' = trace \o <<Ev("notify", "weekly_report", send_email(smtp_ok)),
                                            StageEvent("analytics", TRUE)>>
                ELSE trace' = Append(trace, StageEvent("analytics", TRUE))
       \/ /\ ctx' = [ctx EXCEPT !.analytics_data = StagePayload(FALSE)]
          /\ trace' = Append(trace, StageEvent("analytics", FALSE))
    /\ pc' = "oversight"
    /\ UNCHANGED <<now, cfg, weekday, post_type, stage, data, warnings,
                   free_html, beehiiv_ok, post_id, post_url, previews, exit_code,
                   run_log, log_at_start, monVars>>

\* A success summary that leaves the warnings out.
notify_draft_ready_bare(smtp_ok) ==
    [ev |-> "notify", name |-> "draft_ready", ok |-> cfg.NOTIFY_PASSWORD /\ smtp_ok,
     post_id |-> post_id, warnings |-> <<>>]

\* notify_draft_ready(...): one call of _send_email
notify_draft_ready(smtp_ok) ==
    Ev("notify", "draft_ready", send_email(smtp_ok))
        @@ [post_id |-> post_id, warnings |-> warnings]

\* _send_briefing_email(...): the full content, one call of _send_email
send_briefing_email(smtp_ok) ==
    Ev("notify", "briefing_email", send_email(smtp_ok))
        @@ [content |-> free_html, warnings |-> warnings]

\* The details of the SUCCESS record (lines 886-913).
SuccessDetails ==
    [post_type |-> post_type,
     post_id |-> IF post_id = "None" THEN "email-delivery" ELSE post_id,
     post_url |-> post_url,
     gold_price |-> data.gold.price,
     day_pct |-> data.gold.day_chg_pct,
     headlines |-> data.news,
     warnings |-> warnings,
     beehiiv_used |-> beehiiv_ok,
     publish_type |-> IF beehiiv_ok THEN PUBLISH_TYPE ELSE "email-fallback",
     upsell_strategy |-> IF ctx.monetization_data = "default"
                            THEN "none" ELSE ctx.monetization_data]

\* A gate that asks for a post URL instead of a created post.
DraftCreatedByUrl == post_url # ""

\* if beehiiv_ok: (line 866)
DraftCreated == beehiiv_ok

\* Human oversight gate, then the SUCCESS record, then main returns.
OversightGate ==
    /\ pc = "oversight"
    /\ \E smtp_ok \in Booleans :
        trace' = trace \o
            <<IF DraftCreated THEN notify_draft_ready(smtp_ok)
                              ELSE send_briefing_email(smtp_ok),
              Ev("log_run", "SUCCESS", TRUE)>>
    /\ run_log' = log_run("SUCCESS", SuccessDetails)
    /\ pc' = "exited"
    /\ exit_code' = 0
    /\ UNCHANGED <<now, runVars, log_at_start, monVars>>

\* ------------------------------------------------ monetization cooldowns
\* A line of monetization_log.jsonl that json.loads rejects.
CorruptLine == [corrupt |-> TRUE]

\* _days_since_last_upsell(upsell_type), at clock t: scan the lines newest
\* first; the first record of that upsell_type gives (now - ts).days; any
\* exception on the way (an unparseable line) gives 9999, as does no match.
RECURSIVE ScanLastUpsell(_, _, _, _)
ScanLastUpsell(lines, n, upsell_type, t) ==
    IF n = 0 THEN NEVER_DAYS
    ELSE IF lines[n] = CorruptLine THEN NEVER_DAYS
    ELSE IF lines[n].upsell_type = upsell_type
        THEN (t - lines[n].ts) \div TicksPerDay
    ELSE ScanLastUpsell(lines, n - 1, upsell_type, t)

days_since_last_upsell(lines, upsell_type, t) ==
    ScanLastUpsell(lines, Len(lines), upsell_type, t)

\* A ladder whose two lowest rungs are exchanged.
select_strategy_swapped(score, lines, t) ==
    LET days_since_hard  == days_since_last_upsell(lines, "hard", t)
        days_since_promo == days_since_last_upsell(lines, "promo", t)
    IN  IF score >= 80 /\ days_since_promo >= PROMO_COOLDOWN_DAYS THEN "promo"
        ELSE IF score >= 65 /\ days_since_hard >= HARD_UPSELL_COOLDOWN_DAYS
            THEN "hard_upsell"
        ELSE IF score >= 45 THEN "value_reminder"
        ELSE IF score >= 25 THEN "soft_upsell"
        ELSE "none"

\* select_strategy(score, ...), reading the log `lines` at clock t
select_strategy(score, lines, t) ==
    LET days_since_hard  == days_since_last_upsell(lines, "hard", t)
        days_since_promo == days_since_last_upsell(lines, "promo", t)
    IN  IF score >= 80 /\ days_since_promo >= PROMO_COOLDOWN_DAYS THEN "promo"
        ELSE IF score >= 65 /\ days_since_hard >= HARD_UPSELL_COOLDOWN_DAYS
            THEN "hard_upsell"
        ELSE IF score >= 45 THEN "soft_upsell"
        ELSE IF score >= 25 THEN "value_reminder"
        ELSE "none"

\* A record that tags only hard upsells.
UpsellTypeHardOnly(strategy) == IF strategy = "hard_upsell" THEN strategy ELSE "soft"

\* "upsell_type": strategy if strategy in ("hard_upsell", "promo") else "soft"
UpsellTypeOf(strategy) ==
    IF strategy \in {"hard_upsell", "promo"} THEN strategy ELSE "soft"

\* log_monetization's record
MonetizationRecord(today, score, strategy) ==
    [ts |-> today, score |-> score, strategy |-> strategy,
     upsell_type |-> UpsellTypeOf(strategy)]

\* Totals of score_opportunity handed to select_strategy.
Scores == {64, 65, 79, 80}
\* Ticks between two runs of the agent.
RunGaps == {1, HARD_UPSELL_COOLDOWN_DAYS * TicksPerDay,
            PROMO_COOLDOWN_DAYS * TicksPerDay - 1,
            PROMO_COOLDOWN_DAYS * TicksPerDay}
\* Ticks between the orchestrator's `today` and the agent's datetime.now().
RunLags == {0, 1}

\* monetization_agent.run(post_type, data, today): score, select_strategy,
\* log_monetization (a failed write is swallowed).
MonetizationRun ==
    /\ pc = "agent"
    /\ mon_runs < MaxMonRuns
    /\ \E gap \in RunGaps, lag \in RunLags, score \in Scores, written \in Booleans :
        LET today    == IF mon_runs = 0 THEN now ELSE now + gap
            at       == today + lag
            strategy == select_strategy(score, mon_log, at)
        IN  /\ now' = at
            /\ mon_decision' = [strategy |-> strategy, score |-> score,
                                at |-> at, seen |-> mon_log]
            /\ mon_log' = IF written
                            THEN Append(mon_log, MonetizationRecord(today, score, strategy))
                            ELSE mon_log
    /\ mon_runs' = mon_runs + 1
    /\ UNCHANGED <<pc, runVars, exit_code, run_log, log_at_start, trace, hist,
                   partners>>

InitMon ==
    /\ pc = "agent"
    /\ cfg = NoCfg
    /\ weekday = 0
    /\ run_log = <<>>
    /\ log_at_start = <<>>
    /\ now = 0
    /\ post_type = "unset"
    /\ stage = "unset"
    /\ data = NoData
    /\ warnings = <<>>
    /\ ctx = [k \in STAGE_KEYS |-> "unset"]
    /\ free_html = {}
    /\ beehiiv_ok = FALSE
    /\ post_id = "None"
    /\ post_url = ""
    /\ previews = {}
    /\ exit_code = "none"
    /\ trace = <<>>
    /\ MonIdle

NextMon == MonetizationRun

SpecMon == InitMon /\ [][NextMon]_vars

\* -------------------------------------------------------- historical reads
\* analytics_agent.read_log(name, days), at clock t: the records of the last
\* `days` days; a line that does not parse is skipped.
read_log(lines, days, t) ==
    SelectSeq(lines, LAMBDA l : l # CorruptLine /\ l.ts >= t - days * TicksPerDay)

\* pipeline_metrics' streak loop over the runs it read.
RECURSIVE MetricsStreakScan(_, _)
MetricsStreakScan(runs, n) ==
    IF n = 0 THEN 0
    ELSE IF runs[n].status = "SUCCESS" THEN 1 + MetricsStreakScan(runs, n - 1)
    ELSE 0

\* pipeline_metrics(days): the streak it reports, at clock t.
pipeline_metrics_streak(lines, days, t) ==
    LET runs == read_log(lines, days, t) IN MetricsStreakScan(runs, Len(runs))

\* _get_success_streak's loop, newest line first; json.loads raising on a
\* line sends the whole function to `except Exception: return 0`.
RECURSIVE StreakScan(_, _, _)
StreakScan(lines, n, streak) ==
    IF n = 0 THEN streak
    ELSE IF lines[n] = CorruptLine THEN 0
    ELSE IF lines[n].status = "SUCCESS" THEN StreakScan(lines, n - 1, streak + 1)
    ELSE streak

\* A streak that counts every SUCCESS line of the log.
get_success_streak_total(lines) ==
    Cardinality({i \in DOMAIN lines :
        lines[i] # [corrupt |-> TRUE] /\ lines[i].status = "SUCCESS"})

get_success_streak(lines) == StreakScan(lines, Len(lines), 0)

\* What a line of run_log.jsonl can be: a record of one of the four statuses,
\* or text that json.loads rejects.
RUN_STATUSES == {"SUCCESS", "FAILED", "HALTED", "DRY_RUN"}
LineKinds == RUN_STATUSES \cup {"corrupt"}
\* Days between two consecutive runs of a history.
RunSpacings == {1, 4}
\* The window pipeline_metrics and the weekly report read.
WindowDays == {7}

RunLine(kind, ts) ==
    IF kind = "corrupt" THEN CorruptLine ELSE [ts |-> ts, status |-> kind]
RunHistory(kinds, spacing) ==
    [i \in DOMAIN kinds |-> RunLine(kinds[i], (i - 1) * spacing * TicksPerDay)]
KindSeqs == UNION {[1..n -> LineKinds] : n \in 0..MaxLines}

\* What monetization_log.jsonl can hold: records as log_monetization writes
\* them, and unparseable lines.
MonLineKinds == {"hard_upsell", "promo", "soft_upsell", "corrupt"}
MonLine(kind, ts) ==
    IF kind = "corrupt" THEN CorruptLine ELSE MonetizationRecord(ts, 65, kind)
MonHistories ==
    {[i \in DOMAIN k |-> MonLine(k[i], (i - 1) * TicksPerDay)] :
        k \in UNION {[1..n -> MonLineKinds] : n \in 1..3}}

\* analytics_agent.read_log("run", days)
ReadLog ==
    /\ pc = "reader"
    /\ \E days \in WindowDays :
        hist' = [op |-> "read_log", days |-> days,
                 result |-> read_log(run_log, days, now)]
    /\ UNCHANGED <<pc, now, runVars, exit_code, run_log, log_at_start, trace,
                   mon_log, mon_decision, mon_runs, partners>>

\* analytics_agent.pipeline_metrics(days)
PipelineMetrics ==
    /\ pc = "reader"
    /\ \E days \in WindowDays :
        hist' = [op |-> "pipeline_metrics", days |-> days,
                 streak |-> pipeline_metrics_streak(run_log, days, now)]
    /\ UNCHANGED <<pc, now, runVars, exit_code, run_log, log_at_start, trace,
                   mon_log, mon_decision, mon_runs, partners>>

\* monetization_agent._get_success_streak()
GetSuccessStreak ==
    /\ pc = "reader"
    /\ hist' = [op |-> "success_streak", result |-> get_success_streak(run_log)]
    /\ UNCHANGED <<pc, now, runVars, exit_code, run_log, log_at_start, trace,
                   mon_log, mon_decision, mon_runs, partners>>

\* monetization_agent._days_since_last_upsell(upsell_type)
DaysSinceLastUpsell ==
    /\ pc = "reader"
    /\ \E upsell_type \in {"hard", "promo"} :
        hist' = [op |-> "days_since", upsell_type |-> upsell_type,
                 result |-> days_since_last_upsell(mon_log, upsell_type, now)]
    /\ UNCHANGED <<pc, now, runVars, exit_code, run_log, log_at_start, trace,
                   mon_log, mon_decision, mon_runs, partners>>

\* Log files as earlier runs (and crashes) left them, and a process about to
\* read one of them.
InitHist ==
    /\ pc = "reader"
    /\ cfg = NoCfg
    /\ weekday = 0
    /\ \/ \E k \in KindSeqs, sp \in RunSpacings :
            /\ run_log = RunHistory(k, sp)
            /\ now = Len(k) * sp * TicksPerDay
            /\ mon_log = <<>>
       \/ /\ run_log = <<>>
          /\ mon_log \in MonHistories
          /\ now = Len(mon_log) * TicksPerDay
    /\ log_at_start = run_log
    /\ post_type = "unset"
    /\ stage = "unset"
    /\ data = NoData
    /\ warnings = <<>>
    /\ ctx = [k \in STAGE_KEYS |-> "unset"]
    /\ free_html = {}
    /\ beehiiv_ok = FALSE
    /\ post_id = "None"
    /\ post_url = ""
    /\ previews = {}
    /\ exit_code = "none"
    /\ trace = <<>>
    /\ mon_decision = [strategy |-> "unset"]
    /\ mon_runs = 0
    /\ hist = [op |-> "none"]
    /\ partners = [exists |-> FALSE, list |-> <<>>]

NextHist ==
    \/ ReadLog
    \/ PipelineMetrics
    \/ GetSuccessStreak
    \/ DaysSinceLastUpsell

SpecHist == InitHist /\ [][NextHist]_vars

\* ---------------------------------------------------- opportunity scoring
\* Post type premium value weights
POST_TYPE_SCORES ==
    [trader_intelligence |-> 95,
     macro_outlook       |-> 90,
     africa_regional     |-> 80,
     week_review         |-> 85,
     karat_pricing       |-> 70,
     aggregator          |-> 65,
     educational         |-> 60]

\* A rounding that truncates.
PyTrunc(n, d) == n \div d

\* Python's round(n / d) for non-negative n: to nearest, a tie to the even
\* neighbour.
PyRound(n, d) ==
    LET q == n \div d
        r == n % d
    IN  IF 2 * r < d THEN q
        ELSE IF 2 * r > d THEN q + 1
        ELSE IF q % 2 = 0 THEN q ELSE q + 1

Min(a, b) == IF a <= b THEN a ELSE b

\* A volatility table with two arms exchanged.
VolatilityScoreSwapped(pct) ==
    IF pct >= 30 THEN 30
    ELSE IF pct >= 20 THEN 14
    ELSE IF pct >= 10 THEN 22
    ELSE 5

\* 1. Volatility score, pct in tenths of a percent
VolatilityScore(pct) ==
    IF pct >= 30 THEN 30
    ELSE IF pct >= 20 THEN 22
    ELSE IF pct >= 10 THEN 14
    ELSE 5

\* 2. RSI extremes; gold.get("rsi") is None when the snapshot has no rsi
RsiScore(gold) ==
    IF "rsi" \notin DOMAIN gold THEN 0
    ELSE IF gold.rsi >= 75 \/ gold.rsi <= 25 THEN 20
    ELSE IF gold.rsi >= 65 \/ gold.rsi <= 35 THEN 12
    ELSE 4

\* 3. Post type premium value: round(base * 0.25)
PostTypeScore(pt) ==
    PyRound(IF pt \in DOMAIN POST_TYPE_SCORES THEN POST_TYPE_SCORES[pt] ELSE 60, 4)

\* 4. ATH proximity, by absolute price level
AthScore(price) ==
    IF price >= 5000 THEN 20
    ELSE IF price >= 3500 THEN 14
    ELSE IF price >= 2500 THEN 8
    ELSE 3

\* A streak bonus worth twice as much.
StreakBonusDoubled(streak) ==
    IF streak >= 7 THEN 10
    ELSE IF streak >= 3 THEN 6
    ELSE 0

\* 5. Pipeline streak bonus
StreakBonus(streak) ==
    IF streak >= 7 THEN 5
    ELSE IF streak >= 3 THEN 3
    ELSE 0

\* score_opportunity(data, post_type, today), with run_log.jsonl holding `lines`
score_opportunity(d, pt, lines) ==
    LET volatility    == VolatilityScore(Abs(DayPctOf(d.gold)))
        rsi_extreme   == RsiScore(d.gold)
        post_type_pts == PostTypeScore(pt)
        ath_proximity == AthScore(PriceOf(d.gold))
        streak_bonus  == StreakBonus(get_success_streak(lines))
    IN  [volatility |-> volatility, rsi_extreme |-> rsi_extreme,
         post_type |-> post_type_pts, ath_proximity |-> ath_proximity,
         streak_bonus |-> streak_bonus,
         total |-> Min(100, volatility + rsi_extreme + post_type_pts
                            + ath_proximity + streak_bonus)]

\* The snapshots, post types and histories handed to the scorer.
ScorePrices == {2499, 2500, 2950, 3499, 3500, 4999, 5000}
ScorePcts == {0, 5, 9, 10, 19, 20, 21, 29, 30, 35, 0 - 21, 0 - 35}
ScoreRsis == {25, 26, 35, 36, 64, 65, 72, 74, 75}
ScoreGolds ==
    {[price |-> p, day_chg_pct |-> c, rsi |-> r] :
        p \in ScorePrices, c \in ScorePcts, r \in ScoreRsis}
    \cup {[price |-> p, day_chg_pct |-> c] : p \in ScorePrices, c \in ScorePcts}
ScoreStreaks == {0, 2, 3, 6, 7}
SuccessRuns(n) == [i \in 1..n |-> [ts |-> (i - 1) * TicksPerDay, status |-> "SUCCESS"]]

\* monetization_agent.score_opportunity(data, post_type, today)
ScoreOpportunity ==
    /\ pc = "scorer"
    /\ hist' = [op |-> "score",
                scores |-> score_opportunity(data, post_type, run_log)]
    /\ UNCHANGED <<pc, now, runVars, exit_code, run_log, log_at_start, trace,
                   mon_log, mon_decision, mon_runs, partners>>

\* The monetization stage of a run: the snapshot, the post type of the day
\* and the run log as earlier runs left it.
InitScore ==
    /\ pc = "scorer"
    /\ cfg = NoCfg
    /\ weekday = 0
    /\ \E g \in ScoreGolds : data = [gold |-> g, fx_missing |-> {}, news |-> 6]
    /\ post_type \in DOMAIN POST_TYPE_SCORES
    /\ \E n \in ScoreStreaks : run_log = SuccessRuns(n)
    /\ log_at_start = run_log
    /\ now = Len(run_log) * TicksPerDay
    /\ stage = "unset"
    /\ warnings = <<>>
    /\ ctx = [k \in STAGE_KEYS |-> "unset"]
    /\ free_html = {}
    /\ beehiiv_ok = FALSE
    /\ post_id = "None"
    /\ post_url = ""
    /\ previews = {}
    /\ exit_code = "none"
    /\ trace = <<>>
    /\ MonIdle

NextScore == ScoreOpportunity

SpecScore == InitScore /\ [][NextScore]_vars

\* ------------------------------------------------------ strategy ladder
\* Scores around every rung of select_strategy.
LadderScores == {23, 24, 25, 44, 45, 64, 65, 66, 79, 80, 99}
\* monetization_log.jsonl as up to three earlier runs, a day apart, left it.
LadderKinds == {"hard_upsell", "promo", "soft_upsell"}
LadderHistories ==
    {[i \in DOMAIN k |-> MonetizationRecord((i - 1) * TicksPerDay, 65, k[i])] :
        k \in UNION {[1..n -> LadderKinds] : n \in 0..3}}

\* monetization_agent.select_strategy(score, post_type, data)
SelectStrategy ==
    /\ pc = "selector"
    /\ \E score \in LadderScores :
        mon_decision' = [strategy |-> select_strategy(score, mon_log, now),
                         score |-> score, at |-> now, seen |-> mon_log]
    /\ UNCHANGED <<pc, now, runVars, exit_code, run_log, log_at_start, trace,
                   mon_log, mon_runs, hist, partners>>

\* The selector about to be called, a day after the last recorded run.
InitLadder ==
    /\ pc = "selector"
    /\ cfg = NoCfg
    /\ weekday = 0
    /\ run_log = <<>>
    /\ log_at_start = <<>>
    /\ mon_log \in LadderHistories
    /\ now = Len(mon_log) * TicksPerDay
    /\ post_type = "unset"
    /\ stage = "unset"
    /\ data = NoData
    /\ warnings = <<>>
    /\ ctx = [k \in STAGE_KEYS |-> "unset"]
    /\ free_html = {}
    /\ beehiiv_ok = FALSE
    /\ post_id = "None"
    /\ post_url = ""
    /\ previews = {}
    /\ exit_code = "none"
    /\ trace = <<>>
    /\ mon_decision = [strategy |-> "unset"]
    /\ mon_runs = 0
    /\ hist = [op |-> "none"]
    /\ partners = [exists |-> FALSE, list |-> <<>>]

NextLadder == SelectStrategy

SpecLadder == InitLadder /\ [][NextLadder]_vars

\* ------------------------------------------------------- log round trip
\* Here a line of run_log.jsonl is the JSON text itself: an object whose
\* members carry their JSON type.  (Elsewhere a line stands for the record
\* json.loads gives for it.)
\* The Python type of each field of the records main hands to log_run.
PY_FIELD_TYPES ==
    [ts |-> "str", status |-> "str", stage |-> "str", error |-> "str",
     gold_price |-> "float", day_pct |-> "float", warnings |-> "list",
     post_type |-> "str", post_id |-> "str", post_url |-> "str",
     headlines |-> "int", beehiiv_used |-> "bool", publish_type |-> "str",
     upsell_strategy |-> "str"]

\* The dict log_run builds, each value with its Python type.
py_record(rec) == [k \in DOMAIN rec |-> [py |-> PY_FIELD_TYPES[k], v |-> rec[k]]]

\* json.dumps, on the types: a tuple is written as an array like a list.
JsonTypeOf(py) ==
    CASE py = "str"   -> "string"
      [] py = "int"   -> "integer"
      [] py = "float" -> "real"
      [] py = "bool"  -> "boolean"
      [] py = "none"  -> "null"
      [] py \in {"list", "tuple"} -> "array"

\* A reader that keeps every member as text.
PyTypeOfText(json) == "str"

\* json.loads, on the types.
PyTypeOf(json) ==
    CASE json = "string"  -> "str"
      [] json = "integer" -> "int"
      [] json = "real"    -> "float"
      [] json = "boolean" -> "bool"
      [] json = "null"    -> "none"
      [] json = "array"   -> "list"

json_dumps(pyrec) ==
    [k \in DOMAIN pyrec |-> [json |-> JsonTypeOf(pyrec[k].py), v |-> pyrec[k].v]]
json_loads(line) ==
    [k \in DOMAIN line |-> [py |-> PyTypeOf(line[k].json), v |-> line[k].v]]

\* read_log over the text lines: parse each, keep those whose ts (parsed
\* with fromisoformat) is at or after the cutoff, in file order.
read_log_lines(lines, days, t) ==
    LET recs == [i \in DOMAIN lines |-> json_loads(lines[i])]
    IN  SelectSeq(recs, LAMBDA r : r.ts.v >= t - days * TicksPerDay)

\* The shapes of details main passes to log_run.
RoundTripDetails ==
    {[stage |-> "market_intelligence", error |-> "fetch"],
     [stage |-> "anomaly_detection", gold_price |-> 799,
      warnings |-> <<Finding("CRITICAL", "price_out_of_range")>>],
     [post_type |-> "aggregator", gold_price |-> 2950, day_pct |-> 21,
      warnings |-> <<>>],
     [post_type |-> "week_review", post_id |-> "browser-post", post_url |-> "",
      gold_price |-> 2950, day_pct |-> 0 - 101, headlines |-> 6,
      warnings |-> <<Finding("WARNING", "large_daily_swing")>>,
      beehiiv_used |-> TRUE, publish_type |-> "draft",
      upsell_strategy |-> "hard_upsell"]}
StatusFor(details) ==
    IF "stage" \in DOMAIN details
        THEN IF details.stage = "anomaly_detection" THEN "HALTED" ELSE "FAILED"
        ELSE IF "post_id" \in DOMAIN details THEN "SUCCESS" ELSE "DRY_RUN"
\* Ticks between two runs: the same day, or more than a week later.
AppendGaps == {1, 8 * TicksPerDay}

\* A run logs its record: log_run builds it and writes json.dumps of it as
\* one more line.
AppendRecord ==
    /\ pc = "logger"
    /\ Len(run_log) < MaxAppends
    /\ \E details \in RoundTripDetails, gap \in AppendGaps :
        LET appended == log_run(StatusFor(details), details)
            record == py_record(appended[Len(appended)])
        IN
        /\ run_log' = Append(run_log, json_dumps(record))
        /\ trace' = Append(trace, Ev("log_run", StatusFor(details), TRUE)
                                    @@ [record |-> record])
        /\ now' = now + gap
    /\ hist' = [op |-> "none"]
    /\ UNCHANGED <<pc, runVars, exit_code, log_at_start, mon_log,
                   mon_decision, mon_runs, partners>>

\* analytics_agent.read_log("run", 7) on the file as it is
ReadBack ==
    /\ pc = "logger"
    /\ \E days \in WindowDays :
        hist' = [op |-> "read_back", days |-> days, at |-> now,
                 result |-> read_log_lines(run_log, days, now)]
    /\ UNCHANGED <<pc, now, runVars, exit_code, run_log, log_at_start, trace,
                   mon_log, mon_decision, mon_runs, partners>>

InitRoundTrip ==
    /\ pc = "logger"
    /\ cfg = NoCfg
    /\ weekday = 0
    /\ run_log = <<>>
    /\ log_at_start = <<>>
    /\ now = 0
    /\ post_type = "unset"
    /\ stage = "unset"
    /\ data = NoData
    /\ warnings = <<>>
    /\ ctx = [k \in STAGE_KEYS |-> "unset"]
    /\ free_html = {}
    /\ beehiiv_ok = FALSE
    /\ post_id = "None"
    /\ post_url = ""
    /\ previews = {}
    /\ exit_code = "none"
    /\ trace = <<>>
    /\ MonIdle

NextRoundTrip ==
    \/ AppendRecord
    \/ ReadBack

SpecRoundTrip == InitRoundTrip /\ [][NextRoundTrip]_vars

\* ------------------------------------------------------ outreach cooldown
\* Contacts of the starter list, in its order, and a contact the operator
\* added without an address.  last_contacted is <<>> for None, or <<t>> for
\* the ISO text of time t.
Contact(id, score, email_ok) ==
    [id |-> id, score |-> score, email_ok |-> email_ok, last_contacted |-> <<>>]
DEFAULT_PARTNERS ==
    <<Contact("reuters_africa_01", 90, TRUE),
      Contact("bloomberg_africa_01", 88, TRUE),
      Contact("wgc_africa_01", 92, TRUE)>>
EditedPartners == DEFAULT_PARTNERS \o <<Contact("no_address_01", 95, FALSE)>>

\* load_partners: the file's list; a missing file is created from the
\* starter list.
load_partners == IF partners.exists THEN partners.list ELSE DEFAULT_PARTNERS

\* days_since_contacted: whole days since last_contacted, 9999 if never.
days_since_contacted(p, t) ==
    IF p.last_contacted = <<>> THEN NEVER_DAYS
    ELSE (t - p.last_contacted[1]) \div TicksPerDay

\* pick_contacts: the eligible contacts sorted by score descending, then by
\* days since contact descending (a stable sort), cut to max_drafts.
pick_contacts(ps, t) ==
    LET eligible == {i \in DOMAIN ps :
                        /\ days_since_contacted(ps[i], t) >= COOLDOWN_DAYS
                        /\ ps[i].email_ok}
        Before(i, j) ==
            \/ ps[i].score > ps[j].score
            \/ /\ ps[i].score = ps[j].score
               /\ \/ days_since_contacted(ps[i], t) > days_since_contacted(ps[j], t)
                  \/ /\ days_since_contacted(ps[i], t) = days_since_contacted(ps[j], t)
                     /\ i < j
    IN  {ps[i].id : i \in {j \in eligible :
            Cardinality({k \in eligible : Before(k, j)}) < MAX_DRAFTS}}

\* A marking that leaves the list as it was.
mark_contacted_nowhere(ps, ids, today) == ps

\* mark_contacted: last_contacted = today for the drafted contacts.
mark_contacted(ps, ids, today) ==
    [i \in DOMAIN ps |->
        IF ps[i].id \in ids THEN [ps[i] EXCEPT !.last_contacted = <<today>>]
                            ELSE ps[i]]

\* Ticks between two runs: later the same day, just short of the cooldown,
\* the cooldown exactly.
OutreachGaps == {1, COOLDOWN_DAYS * TicksPerDay - 1, COOLDOWN_DAYS * TicksPerDay}

\* partnership_agent.run(data, today): load, pick, draft, mark and save.  A
\* draft builder that raises ends the run before anything is marked, and the
\* orchestrator then has no drafts.
PartnershipRun ==
    /\ pc = "outreach"
    /\ Len(trace) < MaxOutreachRuns
    /\ \E gap \in OutreachGaps, lag \in RunLags, built \in Booleans :
        LET today    == IF trace = <<>> THEN now ELSE now + gap
            at       == today + lag
            loaded   == load_partners
            selected == pick_contacts(loaded, at)
            drafted  == IF built THEN selected ELSE {}
        IN  /\ now' = at
            /\ partners' = [exists |-> TRUE,
                            list |-> IF drafted # {}
                                        THEN mark_contacted(loaded, drafted, today)
                                        ELSE loaded]
            /\ trace' = Append(trace, Ev("outreach", "run", built)
                                @@ [today |-> today, at |-> at,
                                    drafted |-> drafted])
    /\ UNCHANGED <<pc, runVars, exit_code, run_log, log_at_start, mon_log,
                   mon_decision, mon_runs, hist>>

InitOutreach ==
    /\ pc = "outreach"
    /\ cfg = NoCfg
    /\ weekday = 0
    /\ run_log = <<>>
    /\ log_at_start = <<>>
    /\ now = 0
    /\ post_type = "unset"
    /\ stage = "unset"
    /\ data = NoData
    /\ warnings = <<>>
    /\ ctx = [k \in STAGE_KEYS |-> "unset"]
    /\ free_html = {}
    /\ beehiiv_ok = FALSE
    /\ post_id = "None"
    /\ post_url = ""
    /\ previews = {}
    /\ exit_code = "none"
    /\ trace = <<>>
    /\ mon_log = <<>>
    /\ mon_decision = [strategy |-> "unset"]
    /\ mon_runs = 0
    /\ hist = [op |-> "none"]
    /\ partners \in {[exists |-> FALSE, list |-> <<>>],
                     [exists |-> TRUE, list |-> DEFAULT_PARTNERS],
                     [exists |-> TRUE, list |-> EditedPartners]}

NextOutreach == PartnershipRun

SpecOutreach == InitOutreach /\ [][NextOutreach]_vars

\* ------------------------------------------------------------ --post-type
\* The names the usage text and the comment above _FORCE_POST_TYPE list.
USAGE_POST_TYPES == {"monday_deep_dive", "africa_regional", "aggregator",
                     "africa_premium", "trader_intel", "analysis",
                     "week_review"}
\* What _FORCE_POST_TYPE can hold: None (no flag, or nothing after it), a
\* listed or known name, or the next flag of the command line.
ForceArgs == {"None", "--dry-run"} \cup POST_TYPE_LABELS \cup USAGE_POST_TYPES
AllWeekdays == 0..6

InitPostType ==
    /\ pc = "main"
    /\ \E f \in ForceArgs, dry \in Booleans, pw \in Booleans :
        cfg = [NoCfg EXCEPT !.FORCE_POST_TYPE = f, !.DRY_RUN = dry,
                            !.NOTIFY_PASSWORD = pw]
    /\ weekday \in AllWeekdays
    /\ run_log = <<>>
    /\ log_at_start = <<>>
    /\ now = 0
    /\ post_type = "unset"
    /\ stage = "unset"
    /\ data = NoData
    /\ warnings = <<>>
    /\ ctx = [k \in STAGE_KEYS |-> "unset"]
    /\ free_html = {}
    /\ beehiiv_ok = FALSE
    /\ post_id = "None"
    /\ post_url = ""
    /\ previews = {}
    /\ exit_code = "none"
    /\ trace = <<>>
    /\ MonIdle

NextPostType == ImportAgents

SpecPostType == InitPostType /\ [][NextPostType]_vars

\* ------------------------------------------------------------ specification
Next ==
    \/ PrintLog
    \/ ImportAgents
    \/ MarketIntelligence
    \/ DataQualityCheck
    \/ AfricaIntelligence
    \/ ContractTransparency
    \/ ContentSynthesis
    \/ SeoDiscoverability
    \/ DryRun
    \/ DistributionApi
    \/ DistributionBrowser
    \/ LinkedInPost
    \/ SocialAmplification
    \/ PartnershipOutreach
    \/ MonetizationOptimizer
    \/ AnalyticsReporting
    \/ OversightGate

Spec == Init /\ [][Next]_vars

\* ------------------------------------------------------------- vocabulary
Last(s) == s[Len(s)]
IsPrefix(s, t) == Len(s) <= Len(t) /\ SubSeq(t, 1, Len(s)) = s

Exited == pc = "exited"
\* A pipeline run (not the --log listing) that has returned or exited.
RunEnded == Exited /\ ~cfg.PRINT_LOG
\* Agent 1 has built the snapshot.
Fetched == data # NoData
\* The records this process has appended to the run log.
NewRecords == SubSeq(run_log, Len(log_at_start) + 1, Len(run_log))

EventsOf(kind) == SelectSeq(trace, LAMBDA e : e.ev = kind)
Happened(kind, name) ==
    \E i \in DOMAIN trace : trace[i].ev = kind /\ trace[i].name = name
HappenedWith(kind, name, ok) ==
    \E i \in DOMAIN trace :
        trace[i].ev = kind /\ trace[i].name = name /\ trace[i].ok = ok

OutOfBand(price) == price < 800 \/ price > 15000

\* ----------------------------------------------------------------- C1
\* C1: every snapshot whose gold price is outside [800, 15000] (800 and 15000
\* themselves are valid, a missing price counts as 0) gets at least one
\* CRITICAL finding from check_data_quality, and a run that fetched such a
\* snapshot halts at the gate: it appends one HALTED record and exits with no
\* enrichment stage, no content synthesis and no distribution channel invoked.
C1_OutOfBandHalts ==
    /\ pc = "main" =>
      \A f \in Feeds :
        /\ \A g \in Golds :
            LET d == [gold |-> g, fx_missing |-> f.fx_missing, news |-> f.news]
            IN  OutOfBand(g.price) <=> Criticals(check_data_quality(d)) # <<>>
        /\ \A pct \in DayPcts :
            LET d == [gold |-> [day_chg_pct |-> pct],
                      fx_missing |-> f.fx_missing, news |-> f.news]
            IN  Criticals(check_data_quality(d)) # <<>>
    /\ (Fetched /\ OutOfBand(data.gold.price) /\ pc # "quality") =>
        /\ Exited
        /\ exit_code = 1
        /\ Criticals(warnings) # <<>>
        /\ Len(NewRecords) = 1
        /\ NewRecords[1].status = "HALTED"
        /\ NewRecords[1].stage = "anomaly_detection"
        /\ EventsOf("stage") = <<>>
        /\ EventsOf("channel") = <<>>
        /\ free_html = {}
        /\ \A k \in STAGE_KEYS : ctx[k] = "unset"

C1_Witness ==
    /\ Exited
    /\ Fetched
    /\ data.gold.price > 15000
    /\ Last(run_log).status = "HALTED"

\* ----------------------------------------------------------------- C2
ApiCreated == HappenedWith("channel", "api", TRUE)
BrowserPublished == HappenedWith("channel", "browser", TRUE)

\* C2: in a non-dry run whose API channel created the post, the post id and
\* URL the run carries, reports and records are the API's, publish_post of the
\* browser channel is not called and the full-content email is not sent.
C2_ApiPrecedence ==
    ApiCreated =>
        /\ ~cfg.DRY_RUN
        /\ beehiiv_ok
        /\ post_id = "api-post"
        /\ post_url = "web_url"
        /\ ~Happened("channel", "browser")
        /\ ~Happened("notify", "briefing_email")
        /\ Exited =>
            /\ Last(run_log).status = "SUCCESS"
            /\ Last(run_log).post_id = "api-post"
            /\ Last(run_log).post_url = "web_url"
            /\ \E i \in DOMAIN trace :
                /\ trace[i].ev = "notify"
                /\ trace[i].name = "draft_ready"
                /\ trace[i].post_id = "api-post"

C2_Witness ==
    /\ Exited
    /\ ApiCreated
    /\ Last(run_log).post_id = "api-post"

\* ----------------------------------------------------------------- C3
\* C3: in a non-dry run whose API channel did not create the post (no key, a
\* plan restriction, any other error) and whose browser channel published it,
\* the id and URL the run carries, reports and records are the browser's and
\* _send_briefing_email is not called.
C3_BrowserFallthrough ==
    (BrowserPublished /\ ~ApiCreated) =>
        /\ ~cfg.DRY_RUN
        /\ beehiiv_ok
        /\ post_id = "browser-post"
        /\ post_url \in {"post_url", ""}
        /\ ~Happened("notify", "briefing_email")
        /\ Exited =>
            /\ Last(run_log).status = "SUCCESS"
            /\ Last(run_log).post_id = "browser-post"
            /\ Last(run_log).post_url = post_url
            /\ Last(run_log).beehiiv_used
            /\ \E i \in DOMAIN trace :
                /\ trace[i].ev = "notify"
                /\ trace[i].name = "draft_ready"
                /\ trace[i].post_id = "browser-post"

C3_Witness ==
    /\ Exited
    /\ HappenedWith("channel", "api", FALSE)
    /\ BrowserPublished
    /\ post_url = ""
    /\ Last(run_log).post_id = "browser-post"

\* ----------------------------------------------------------------- C4
\* Every channel of the chain failed: no API post, no browser post, and the
\* full-content email was not delivered.
AllChannelsFailed ==
    /\ RunEnded
    /\ ~ApiCreated
    /\ ~BrowserPublished
    /\ HappenedWith("notify", "briefing_email", FALSE)

\* C4: a run in which the API channel fails, the browser channel fails and
\* the fallback email is not delivered ends with a non-SUCCESS record and a
\* failing exit status.
C4_AllChannelsFailIsFailure ==
    AllChannelsFailed =>
        /\ Last(run_log).status # "SUCCESS"
        /\ exit_code = 1

\* ----------------------------------------------------------------- C5
\* The stages of main that leave events, in the order main runs them, and
\* the key each enrichment stage fills.
PIPELINE_ORDER == <<"africa_intelligence", "contract_transparency",
                    "content_synthesis", "seo", "social", "partnership",
                    "monetization", "analytics">>
ENRICHMENT_KEY ==
    [africa_intelligence |-> "africa_data",
     contract_transparency |-> "contract_data",
     seo |-> "seo_data",
     social |-> "social_data",
     partnership |-> "partnership_data",
     monetization |-> "monetization_data",
     analytics |-> "analytics_data"]
StagesRun == [i \in DOMAIN EventsOf("stage") |-> EventsOf("stage")[i].name]
FATAL_STAGES == {"import", "market_intelligence", "anomaly_detection",
                 "content_synthesis"}

\* C5: an enrichment stage that raises is caught: its key holds the default
\* payload, the stages after it run in the usual order (none is skipped, the
\* failure is never the last thing the run does and never the run's fatal
\* stage), and a run that gets through distribution ends with SUCCESS having
\* run all of them.
C5_EnrichmentIsolation ==
    /\ \A i \in DOMAIN trace :
        (trace[i].ev = "stage" /\ ~trace[i].ok) =>
            /\ trace[i].name \in DOMAIN ENRICHMENT_KEY
            /\ ctx[ENRICHMENT_KEY[trace[i].name]] = "default"
    /\ IsPrefix(StagesRun, PIPELINE_ORDER)
    /\ (Exited /\ trace # <<>>) => Last(trace).ev # "stage"
    /\ (Exited /\ exit_code = 1) => Last(run_log).stage \in FATAL_STAGES
    /\ (RunEnded /\ exit_code = 0 /\ ~cfg.DRY_RUN) =>
        /\ StagesRun = PIPELINE_ORDER
        /\ Last(run_log).status = "SUCCESS"

C5_Witness ==
    /\ Exited
    /\ \A k \in STAGE_KEYS : ctx[k] = "default"
    /\ \A n \in DOMAIN ENRICHMENT_KEY : HappenedWith("stage", n, FALSE)
    /\ Last(run_log).status = "SUCCESS"

\* ----------------------------------------------------------------- C6
\* The status main's exit path calls for, read off the process's own state.
ExpectedStatus ==
    IF exit_code = 1
        THEN IF Criticals(warnings) # <<>> THEN "HALTED" ELSE "FAILED"
        ELSE IF cfg.DRY_RUN THEN "DRY_RUN" ELSE "SUCCESS"
ExpectedFatalStage ==
    IF Criticals(warnings) # <<>> THEN "anomaly_detection" ELSE stage

\* C6: a pipeline run appends nothing while it runs and exactly one record
\* when it ends, on every path: FAILED for an import, fetch or synthesis
\* failure, HALTED for a critical finding, DRY_RUN for a dry run, SUCCESS
\* otherwise.
C6_OneRecordPerRun ==
    /\ ~Exited => run_log = log_at_start
    /\ RunEnded =>
        /\ Len(run_log) = Len(log_at_start) + 1
        /\ Len(NewRecords) = 1
        /\ NewRecords[1].status = ExpectedStatus
        /\ exit_code = 1 =>
            /\ NewRecords[1].stage = ExpectedFatalStage
            /\ stage \in {"import", "market_intelligence", "content_synthesis"}
        /\ exit_code = 0 => StagesRun # <<>>

C6_Witness ==
    /\ RunEnded
    /\ log_at_start # <<>>
    /\ Len(NewRecords) = 1
    /\ NewRecords[1].status = "DRY_RUN"

\* ----------------------------------------------------------------- C7
\* C7: the run log only grows at its end: every step of the orchestrator and
\* of the agents it calls leaves the log it found as a prefix of the log it
\* leaves, so no record once written is rewritten, reordered or deleted.
C7_AppendOnly == [][IsPrefix(run_log, run_log')]_vars

C7_Witness ==
    /\ Exited
    /\ Len(log_at_start) >= 2
    /\ Len(run_log) > Len(log_at_start)
    /\ IsPrefix(log_at_start, run_log)

\* ----------------------------------------------------------------- C8
\* The calls of the orchestrator's own notifiers, and the analytics agent's
\* weekly report.
OperatorNotices ==
    SelectSeq(trace, LAMBDA e : e.ev = "notify" /\ e.name # "weekly_report")
WeeklyReports ==
    SelectSeq(trace, LAMBDA e : e.ev = "notify" /\ e.name = "weekly_report")

\* C8 as stated: whatever the mode and the outcome, a run that has ended
\* has made exactly one notification.
C8_ExactlyOneNotification ==
    RunEnded => Len(EventsOf("notify")) = 1

\* C8: a run that ends FAILED, HALTED or SUCCESS has called exactly one of
\* the orchestrator's notifiers, once (notify_failure for FAILED and HALTED,
\* notify_draft_ready when a post was created, the full-content email
\* otherwise) and none before it ended; a dry run calls none; the only other
\* email of a run is the weekly report, at most once and only on a Sunday;
\* nothing is delivered without NOTIFY_PASSWORD.
C8_NotifierCalls ==
    /\ ~Exited => OperatorNotices = <<>>
    /\ Len(WeeklyReports) <= 1
    /\ WeeklyReports # <<>> => weekday = 6 /\ ~cfg.DRY_RUN
    /\ \A i \in DOMAIN trace :
        (trace[i].ev = "notify" /\ trace[i].ok) => cfg.NOTIFY_PASSWORD
    /\ RunEnded =>
        LET status == Last(run_log).status IN
        /\ status = "DRY_RUN" => OperatorNotices = <<>>
        /\ status # "DRY_RUN" => Len(OperatorNotices) = 1
        /\ status \in {"FAILED", "HALTED"} => OperatorNotices[1].name = "failure"
        /\ status = "SUCCESS" =>
            OperatorNotices[1].name =
                IF beehiiv_ok THEN "draft_ready" ELSE "briefing_email"

C8_Witness ==
    /\ RunEnded
    /\ Len(WeeklyReports) = 1
    /\ Len(OperatorNotices) = 1
    /\ OperatorNotices[1].name = "draft_ready"

\* ----------------------------------------------------------------- C9
\* The agent has run at least once.
Decided == mon_decision.strategy # "unset"
\* The log the last run read holds a record of `strategy` written less than
\* `days` days before that run.
RecentlyUsed(strategy, days) ==
    \E i \in DOMAIN mon_decision.seen :
        /\ mon_decision.seen[i].strategy = strategy
        /\ mon_decision.at - mon_decision.seen[i].ts < days * TicksPerDay

\* C9: a run that finds a promo record less than 14 days old in the history
\* does not select promo, whatever its score: it selects hard_upsell or a
\* lower rung.
C9_PromoCooldown ==
    (Decided /\ RecentlyUsed("promo", 14)) =>
        mon_decision.strategy \in {"hard_upsell", "soft_upsell",
                                   "value_reminder", "none"}

C9_Witness ==
    /\ Decided
    /\ RecentlyUsed("promo", 14)
    /\ mon_decision.score >= 80
    /\ mon_decision.strategy = "hard_upsell"
    /\ \E i \in DOMAIN mon_decision.seen :
        /\ mon_decision.seen[i].strategy = "promo"
        /\ mon_decision.at - mon_decision.seen[i].ts = 14 * TicksPerDay - 1

\* ----------------------------------------------------------------- C10
\* C10: a run that finds a hard_upsell record less than 3 days old in the
\* history does not select hard_upsell, whatever its score; with a score of
\* 65 or more and no promo it selects soft_upsell.
C10_HardUpsellCooldown ==
    (Decided /\ RecentlyUsed("hard_upsell", 3)) =>
        /\ mon_decision.strategy # "hard_upsell"
        /\ (mon_decision.score >= 65 /\ mon_decision.strategy # "promo") =>
            mon_decision.strategy = "soft_upsell"

\* ----------------------------------------------------------------- C11
\* C11: unless the run was started with --publish or AGI_AUTO_PUBLISH=1,
\* every call of a distribution channel (API or browser) carries publish type
\* "draft" and none carries "instant"; the SUCCESS record of a created post
\* says the same.
C11_DraftUnlessOverridden ==
    /\ \A i \in DOMAIN trace :
        trace[i].ev = "channel" =>
            /\ trace[i].name \in {"api", "browser"}
            /\ trace[i].publish_type \in {"draft", "instant"}
            /\ ~cfg.AUTO_PUBLISH => trace[i].publish_type = "draft"
            /\ trace[i].publish_type = "instant" => cfg.AUTO_PUBLISH
    /\ (RunEnded /\ ~cfg.AUTO_PUBLISH /\ Last(run_log).status = "SUCCESS") =>
        Last(run_log).publish_type \in {"draft", "email-fallback"}

C11_Witness ==
    /\ RunEnded
    /\ ~cfg.AUTO_PUBLISH
    /\ HappenedWith("channel", "api", FALSE)
    /\ HappenedWith("channel", "browser", TRUE)
    /\ \A i \in DOMAIN trace :
        trace[i].ev = "channel" => trace[i].publish_type = "draft"

\* ----------------------------------------------------------------- C12
\* C12: a dry run never calls a distribution channel (API, browser or the
\* full-content email), and one that got through the quality gate and
\* content synthesis ends with both preview files written and exactly one
\* record, of status DRY_RUN; a run that is not dry writes no preview.
C12_DryRunSkipsDistribution ==
    /\ cfg.DRY_RUN =>
        /\ EventsOf("channel") = <<>>
        /\ ~Happened("notify", "briefing_email")
        /\ ~Happened("notify", "draft_ready")
        /\ ~beehiiv_ok
        /\ post_id = "None"
    /\ (cfg.DRY_RUN /\ Exited /\ Happened("stage", "content_synthesis")) =>
        /\ previews = {"free", "premium"}
        /\ exit_code = 0
        /\ Len(NewRecords) = 1
        /\ NewRecords[1].status = "DRY_RUN"
    /\ previews # {} => cfg.DRY_RUN /\ Exited

C12_Witness ==
    /\ cfg.DRY_RUN
    /\ Exited
    /\ Happened("stage", "content_synthesis")
    /\ previews = {"free", "premium"}
    /\ cfg.BEEHIIV_API_KEY
    /\ warnings # <<>>

\* ----------------------------------------------------------------- C13
\* The run ended in the fatal handler of `stg` (not in the quality gate).
FailedAt(stg) ==
    /\ Exited
    /\ exit_code = 1
    /\ stage = stg
    /\ Criticals(warnings) = <<>>

\* C13: a failed fetch (or an empty gold) and a failed content synthesis
\* abort the run at once: the run has exited non-zero with one FAILED record
\* naming the stage, a failure notification carrying the stage and the error
\* was triggered after it, the stage was tried once, and nothing after the
\* stage has run.
C13_FatalStagesAbort ==
    /\ (stage = "market_intelligence" /\ ~Fetched /\ pc # "market_intelligence")
            => FailedAt("market_intelligence")
    /\ (stage = "content_synthesis" /\ ~Happened("stage", "content_synthesis"))
            => FailedAt("content_synthesis")
    /\ \A stg \in {"market_intelligence", "content_synthesis"} :
        FailedAt(stg) =>
            /\ Len(NewRecords) = 1
            /\ NewRecords[1].status = "FAILED"
            /\ NewRecords[1].stage = stg
            /\ Len(trace) >= 2
            /\ trace[Len(trace) - 1] = Ev("log_run", "FAILED", TRUE)
            /\ Last(trace).ev = "notify"
            /\ Last(trace).name = "failure"
            /\ Last(trace).stage = stg
            /\ Last(trace).error = NewRecords[1].error
            /\ Len(EventsOf("log_run")) = 1
            /\ Len(EventsOf("notify")) = 1
            /\ EventsOf("channel") = <<>>
            /\ free_html = {}
            /\ previews = {}
            /\ ~Happened("stage", "content_synthesis")
            /\ ~Happened("stage", "seo")
            /\ stg = "market_intelligence" => EventsOf("stage") = <<>>

C13_Witness ==
    /\ FailedAt("content_synthesis")
    /\ Happened("stage", "contract_transparency")
    /\ Last(trace).stage = "content_synthesis"
    /\ Last(trace).ok

\* ----------------------------------------------------------------- C14
\* The stage `name` has left its event before position i of the trace.
RanBefore(name, i) ==
    \E j \in 1..(i - 1) : trace[j].ev = "stage" /\ trace[j].name = name

\* C14: in a non-dry run every enrichment stage has finished before content
\* synthesis, and content synthesis before the first channel call, so that
\* the content a channel is handed holds the monetization banner whenever
\* the run's strategy has one.
C14_StageOrdering ==
    \A i \in DOMAIN trace :
        /\ (trace[i].ev = "stage" /\ trace[i].name = "content_synthesis") =>
            \A n \in DOMAIN ENRICHMENT_KEY : RanBefore(n, i)
        /\ trace[i].ev = "channel" =>
            /\ RanBefore("content_synthesis", i)
            /\ \A n \in DOMAIN ENRICHMENT_KEY : RanBefore(n, i)
            /\ (Exited /\ ctx.monetization_data = "hard_upsell")
                    => "banner" \in trace[i].content

\* ----------------------------------------------------------------- C15
IsOperatorNotice(e) == e.ev = "notify" /\ e.name # "weekly_report"

\* C15: on every path that notifies the operator (failure, halt, success)
\* the run's record is appended before the notification is sent, and the
\* notification is the last thing the run does.
C15_RecordThenNotify ==
    /\ \A i \in DOMAIN trace :
        IsOperatorNotice(trace[i]) =>
            \E j \in 1..(i - 1) : trace[j].ev = "log_run"
    /\ (RunEnded /\ OperatorNotices # <<>>) => IsOperatorNotice(Last(trace))

\* ----------------------------------------------------------------- C16
\* Day changes around the 10 percent line, in tenths of a percent.
SwingPcts == {0 - 150, 0 - 101, 0 - 100, 0, 100, 101, 150}
SwingWarning == Finding("WARNING", "large_daily_swing")
InSeq(x, s) == \E i \in DOMAIN s : s[i] = x

\* C16: for a snapshot priced inside the band whose day change is beyond 10
\* percent either way, check_data_quality returns a finding for the swing
\* that is a WARNING, and no CRITICAL one; a change of exactly 10 percent
\* gets none; and a run that fetched such a snapshot is not halted at the
\* gate: it goes on to the enrichment stages and to content synthesis.  (The
\* function's part does not depend on the state and is evaluated where the
\* run starts.)
C16_SwingWarnsOnly ==
    /\ pc = "main" =>
      \A p \in {800, 2950, 15000}, pct \in SwingPcts, f \in Feeds :
        LET d == [gold |-> [price |-> p, day_chg_pct |-> pct],
                  fx_missing |-> f.fx_missing, news |-> f.news]
            ws == check_data_quality(d)
        IN  /\ Criticals(ws) = <<>>
            /\ InSeq(SwingWarning, ws) <=> (pct > 100 \/ pct < 0 - 100)
            /\ \A i \in DOMAIN ws :
                ws[i].what = "large_daily_swing" => ws[i].sev = "WARNING"
    /\ (Fetched /\ ~OutOfBand(data.gold.price)
            /\ Abs(data.gold.day_chg_pct) > 100 /\ pc # "quality") =>
        /\ InSeq(SwingWarning, warnings)
        /\ Criticals(warnings) = <<>>
        /\ pc = "africa_intelligence" \/ Happened("stage", "africa_intelligence")
        /\ \A i \in DOMAIN NewRecords : NewRecords[i].status # "HALTED"
        /\ (Exited /\ exit_code = 0) => Happened("stage", "content_synthesis")

C16_Witness ==
    /\ Exited
    /\ Fetched
    /\ data.gold.price = 15000
    /\ Abs(data.gold.day_chg_pct) > 100
    /\ InSeq(SwingWarning, warnings)
    /\ Last(run_log).status = "SUCCESS"
    /\ InSeq(SwingWarning, Last(run_log).warnings)

\* ----------------------------------------------------------------- C17
\* The notification that closes a run which reached the oversight gate.
ClosingNotice == OperatorNotices[Len(OperatorNotices)]

\* C17: in a non-dry run without a CRITICAL finding, the warnings main holds
\* after the gate are the gate's findings at every later point of the run, and
\* when the run has ended each of them is in the closing notification (the
\* success summary or the fallback email) and in the warnings field of the
\* SUCCESS record.
C17_WarningsPropagate ==
    /\ (Fetched /\ pc # "quality" /\ Criticals(check_data_quality(data)) = <<>>)
            => warnings = check_data_quality(data)
    /\ (RunEnded /\ ~cfg.DRY_RUN /\ exit_code = 0) =>
        /\ OperatorNotices # <<>>
        /\ ClosingNotice.name \in {"draft_ready", "briefing_email"}
        /\ Last(run_log).status = "SUCCESS"
        /\ \A i \in DOMAIN check_data_quality(data) :
            LET w == check_data_quality(data)[i] IN
            /\ w.sev = "WARNING"
            /\ InSeq(w, ClosingNotice.warnings)
            /\ InSeq(w, Last(run_log).warnings)

C17_Witness ==
    /\ RunEnded
    /\ Last(run_log).status = "SUCCESS"
    /\ Len(check_data_quality(data)) = 2
    /\ ClosingNotice.name = "draft_ready"
    /\ ClosingNotice.warnings = check_data_quality(data)
    /\ Last(run_log).warnings = check_data_quality(data)

\* ----------------------------------------------------------------- C18
\* A log with its unparseable lines removed.
Clean(lines) == SelectSeq(lines, LAMBDA l : l # CorruptLine)

\* C18: each historical read of a log (the windowed read_log, the success
\* streak, the cooldown lookup) gives on a log with unparseable lines the
\* result it gives on the same log with those lines removed.
C18_CorruptLinesSkipped ==
    /\ hist.op = "read_log" =>
        hist.result = read_log(Clean(run_log), hist.days, now)
    /\ hist.op = "success_streak" =>
        hist.result = get_success_streak(Clean(run_log))
    /\ hist.op = "days_since" =>
        hist.result = days_since_last_upsell(Clean(mon_log), hist.upsell_type, now)

\* ----------------------------------------------------------------- C19
WellFormed(lines) == \A i \in DOMAIN lines : lines[i] # CorruptLine
\* The number of records after the most recent record that is not a SUCCESS.
SuccessSuffix(runs) ==
    LET bad == {i \in DOMAIN runs : runs[i].status # "SUCCESS"}
        last_bad == IF bad = {} THEN 0
                    ELSE CHOOSE i \in bad : \A j \in bad : j <= i
    IN  Len(runs) - last_bad
\* The records of the last `days` days.
Recent(runs, days) ==
    SelectSeq(runs, LAMBDA r : now - r.ts <= days * TicksPerDay)
StatusesOf(runs) == [i \in DOMAIN runs |-> runs[i].status]
SSSFS == <<"SUCCESS", "SUCCESS", "SUCCESS", "FAILED", "SUCCESS">>

C20_EndToEndScore ==
    (/\ hist.op = "score"
     /\ data.gold = [price |-> 2950, day_chg_pct |-> 21, rsi |-> 72]
     /\ post_type = "trader_intelligence"
     /\ run_log = <<>>) =>
        /\ hist.scores.volatility = 22
        /\ hist.scores.rsi_extreme = 12
        /\ hist.scores.post_type = 24
        /\ hist.scores.ath_proximity = 8
        /\ hist.scores.streak_bonus = 0
        /\ hist.scores.total = 66

C20_Witness ==
    /\ hist.op = "score"
    /\ data.gold = [price |-> 2950, day_chg_pct |-> 21, rsi |-> 72]
    /\ post_type = "trader_intelligence"
    /\ run_log = <<>>
    /\ hist.scores.total = 66

\* ----------------------------------------------------------------- C21
\* C21: with the promo rung not taken, a score of 65 or 66 gives hard_upsell
\* when no hard upsell was recorded in the last 3 days and soft_upsell when
\* one was; 64 gives soft_upsell; the other rungs switch at exactly 80
\* (promo, its cooldown elapsed), 45 (soft_upsell) and 25 (value_reminder),
\* below which the result is none.
C21_LadderBoundaries ==
    Decided =>
        LET score == mon_decision.score
            strategy == mon_decision.strategy
        IN  /\ (score >= 80 /\ ~RecentlyUsed("promo", 14)) => strategy = "promo"
            /\ score = 79 => strategy # "promo"
            /\ (score \in {65, 66} /\ strategy # "promo") =>
                strategy = IF RecentlyUsed("hard_upsell", 3)
                              THEN "soft_upsell" ELSE "hard_upsell"
            /\ score \in {45, 64} => strategy = "soft_upsell"
            /\ score \in {25, 44} => strategy = "value_reminder"
            /\ score \in {23, 24} => strategy = "none"

\* ----------------------------------------------------------------- C22
Scored == hist.op = "score"
\* The snapshot scored, with another day change.
WithDayPct(c) == [data EXCEPT !.gold.day_chg_pct = c]

\* C22: with every other input held constant, the volatility component is
\* non-decreasing in |day_chg_pct| and does not depend on its sign, and the
\* other components do not depend on the day change at all; 0.5 percent
\* scores 5 and 3.5 percent scores 30.
C22_VolatilityMonotone ==
    Scored =>
        /\ \A c \in ScorePcts :
            LET other == score_opportunity(WithDayPct(c), post_type, run_log) IN
            /\ Abs(c) >= Abs(data.gold.day_chg_pct)
                    => other.volatility >= hist.scores.volatility
            /\ Abs(c) = Abs(data.gold.day_chg_pct)
                    => other.volatility = hist.scores.volatility
            /\ other.rsi_extreme = hist.scores.rsi_extreme
            /\ other.post_type = hist.scores.post_type
            /\ other.ath_proximity = hist.scores.ath_proximity
            /\ other.streak_bonus = hist.scores.streak_bonus
        /\ Abs(data.gold.day_chg_pct) = 5 => hist.scores.volatility = 5
        /\ Abs(data.gold.day_chg_pct) = 35 => hist.scores.volatility = 30

C22_Witness ==
    /\ Scored
    /\ data.gold.day_chg_pct = 0 - 35
    /\ hist.scores.volatility = 30
    /\ score_opportunity(WithDayPct(5), post_type, run_log).volatility = 5


\* The records log_run has written so far, as it built them.
WrittenRecords == [i \in DOMAIN trace |-> trace[i].record]
InWindow(r, days, t) == r.ts.v >= t - days * TicksPerDay

BrowserPublishedNoUrl == BrowserPublished /\ post_url = ""
\* The social agent built its posts in this run.
SocialBuilt == HappenedWith("stage", "social", TRUE)
SocialLinks == (CHOOSE e \in {trace[i] : i \in DOMAIN trace} :
                    e.ev = "stage" /\ e.name = "social" /\ e.ok).links

\* C24: when the browser channel publishes without a post URL, the run still
\* counts the post as created by the browser (no fallback email, the SUCCESS
\* record has beehiiv_used true and an empty post_url), and every link of the
\* social posts built afterwards is the homepage.
C24_PartialSuccessLinks ==
    BrowserPublishedNoUrl =>
        /\ beehiiv_ok
        /\ post_id = "browser-post"
        /\ ~Happened("notify", "briefing_email")
        /\ SocialBuilt =>
            \A p \in {"twitter", "linkedin", "whatsapp"} :
                SocialLinks[p] = NEWSLETTER_URL
        /\ Exited =>
            /\ Last(run_log).status = "SUCCESS"
            /\ Last(run_log).beehiiv_used
            /\ Last(run_log).post_url = ""
C24_Witness ==
    /\ Exited
    /\ BrowserPublishedNoUrl
    /\ ctx.seo_data = "payload"
    /\ SocialBuilt
    /\ SocialLinks.twitter = NEWSLETTER_URL
    /\ Last(run_log).beehiiv_used


\* main has chosen the edition of this run.
PostTypeChosen == post_type # "unset"

\* C25: a run started with --post-type and a name the generator knows uses
\* that type on every weekday; with any other name, or none, it uses the type
\* scheduled for the weekday; the choice always yields a known type (the
\* label lookup cannot fail), and the only abort at this point is a failed
\* import.
C25_PostTypeFlag ==
    /\ PostTypeChosen =>
        /\ pc = "market_intelligence"
        /\ post_type \in POST_TYPE_LABELS
        /\ IF cfg.FORCE_POST_TYPE \in POST_TYPE_LABELS
              THEN post_type = cfg.FORCE_POST_TYPE
              ELSE post_type = DAY_TYPES(weekday)
    /\ Exited =>
        /\ Last(run_log).stage = "import"
        /\ Last(run_log).error = "ImportError"
C25_Witness ==
    /\ PostTypeChosen
    /\ weekday = 2
    /\ cfg.FORCE_POST_TYPE = "karat_pricing"
    /\ post_type = "karat_pricing"

\* C26: every post-type name of the usage text, given to --post-type, is the
\* edition the run produces.
C26_UsageNamesForce ==
    (PostTypeChosen /\ cfg.FORCE_POST_TYPE \in USAGE_POST_TYPES) =>
        post_type = cfg.FORCE_POST_TYPE


\* publish_post raised "Missing credentials" (_check_credentials).
BrowserLacksCredentials ==
    \E i \in DOMAIN trace :
        /\ trace[i].ev = "channel"
        /\ trace[i].name = "browser"
        /\ trace[i].outcome = "no_credentials"
\* The run is past the distribution chain and the gate that follows it.
PastOversight == pc = "exited" /\ Happened("stage", "content_synthesis")
                                /\ ~cfg.DRY_RUN

\* C27: missing configuration degrades.  Without an API key the API is never
\* called and the browser branch is entered; a browser channel without
\* credentials leaves the post uncreated and the run sends the full-content
\* email instead; without a notification password no email is delivered; and
\* a run that got past synthesis ends with its SUCCESS record and exit 0.
C27_MissingConfigDegrades ==
    /\ ~cfg.BEEHIIV_API_KEY =>
        /\ ~Happened("channel", "api")
        /\ pc = "distribution_browser" => NeedsBrowser
    /\ BrowserLacksCredentials =>
        /\ ~beehiiv_ok
        /\ post_id = "None"
        /\ Exited => Happened("notify", "briefing_email")
    /\ ~cfg.NOTIFY_PASSWORD =>
        \A i \in DOMAIN trace : trace[i].ev = "notify" => ~trace[i].ok
    /\ PastOversight =>
        /\ Last(run_log).status = "SUCCESS"
        /\ exit_code = 0
        /\ Len(NewRecords) = 1
C27_Witness ==
    /\ PastOversight
    /\ ~cfg.BEEHIIV_API_KEY
    /\ ~cfg.NOTIFY_PASSWORD
    /\ BrowserLacksCredentials
    /\ HappenedWith("notify", "briefing_email", FALSE)
    /\ Last(run_log).status = "SUCCESS"


\* The contact list as the file holds it after a run.
SavedContact(id) ==
    CHOOSE p \in {partners.list[i] : i \in DOMAIN partners.list} : p.id = id

ComponentSum ==
    hist.scores.volatility + hist.scores.rsi_extreme + hist.scores.post_type
        + hist.scores.ath_proximity + hist.scores.streak_bonus

\* C29: the total score_opportunity returns is an integer from 23 to 99, and
\* it is the plain sum of the five components: the sum never exceeds 100, so
\* min(100, sum) changes nothing.
C29_TotalRange ==
    Scored =>
        /\ hist.scores.total \in 23..99
        /\ ComponentSum <= 100
        /\ hist.scores.total = ComponentSum
\* The highest total: a 3.5% day, RSI 75, the Monday edition, gold at 5000
\* and seven successes in a row.
C29_Witness ==
    /\ Scored
    /\ hist.scores.total = 99
    /\ post_type = "trader_intelligence"
    /\ Len(run_log) = 7


\* The order of the ladder: none < value_reminder < soft_upsell <
\* hard_upsell < promo.
LADDER == <<"none", "value_reminder", "soft_upsell", "hard_upsell", "promo">>
StrategyRank(s) == CHOOSE i \in DOMAIN LADDER : LADDER[i] = s
\* What the selector returns for another score, from the same log at the
\* same time.
StrategyAt(score) == select_strategy(score, mon_decision.seen, mon_decision.at)

\* C30: the strategy select_strategy returns is one of the five of the
\* ladder, and with the log and the clock held fixed a lower score never gets
\* a higher-ranked strategy, nor a higher score a lower-ranked one.
C30_LadderMonotone ==
    Decided =>
        /\ mon_decision.strategy \in {LADDER[i] : i \in DOMAIN LADDER}
        /\ \A s \in LadderScores :
            /\ StrategyAt(s) \in {LADDER[i] : i \in DOMAIN LADDER}
            /\ s <= mon_decision.score =>
                StrategyRank(StrategyAt(s)) <= StrategyRank(mon_decision.strategy)
            /\ s >= mon_decision.score =>
                StrategyRank(StrategyAt(s)) >= StrategyRank(mon_decision.strategy)
\* Promo on cooldown: a score of 99 gets hard_upsell, above the soft_upsell
\* of 64 and below nothing lower.
C30_Witness ==
    /\ Decided
    /\ mon_decision.score = 99
    /\ RecentlyUsed("promo", 14)
    /\ mon_decision.strategy = "hard_upsell"
    /\ StrategyAt(64) = "soft_upsell"
    /\ StrategyAt(25) = "value_reminder"

====
